---- MODULE Spec2Model ----
(***************************************************************************)
(* Model of the acquisition / download core of Teleseismic-Download-GUI:    *)
(*   - WaveformDownloader.download_waveforms (bulk and individual mode,     *)
(*     chunking, retries, cooperative cancellation, gap cleanup),           *)
(*   - ProgressManager (create_task / update_task / complete_task),         *)
(*   - the Download tab of MainWindow (Compute Arrivals, Download, Stop),   *)
(*   - StationService.search_stations (thread-pool fan-out, per-provider    *)
(*     retries, deduplication).                                             *)
(* Channel codes are sequences of one-character strings so that prefixes    *)
(* (ch[:2]) and the '?' wildcard can be computed as the code computes them. *)
(***************************************************************************)
EXTENDS Integers, Sequences, FiniteSets, TLC

\* ------------------------------------------------------------------ bounds
MaxEvents == 2
MaxRetries == 2
MaxChunk == 2
MaxWorkers == 2
MaxCompute == 2
MaxProviders == 2
MaxRequests == 6
MaxChannels == 2
MaxThreads == 3

\* ------------------------------------------------------- program constants
QueryMaxRetries == 3
BackoffBase == 2
PoolSize == 4

\* ------------------------------------------------------------ small helpers
None == "None"

Min(a, b) == IF a < b THEN a ELSE b

Range(s) == {s[k] : k \in 1..Len(s)}

RECURSIVE Pow(_, _)
Pow(b, e) == IF e = 0 THEN 1 ELSE b * Pow(b, e - 1)

RECURSIVE Concat(_)
Concat(ss) == IF ss = <<>> THEN <<>> ELSE Head(ss) \o Concat(Tail(ss))

\* ------------------------------------------------------ channel resolution
\* str.strip(): leading and trailing blanks removed
RECURSIVE LStrip(_)
LStrip(ch) == IF ch # <<>> /\ Head(ch) = " " THEN LStrip(Tail(ch)) ELSE ch

RECURSIVE RStrip(_)
RStrip(ch) ==
  IF ch # <<>> /\ ch[Len(ch)] = " " THEN RStrip(SubSeq(ch, 1, Len(ch) - 1)) ELSE ch

Strip(ch) == RStrip(LStrip(ch))

\* ch[:2]
Prefix2(ch) == SubSeq(ch, 1, Min(2, Len(ch)))

\* WaveformDownloader._expand_channel_patterns
RECURSIVE ExpandChannelPatterns(_)
ExpandChannelPatterns(channels) ==
  IF channels = <<>> THEN <<>>
  ELSE LET ch == Strip(Head(channels))
           rest == ExpandChannelPatterns(Tail(channels))
       IN IF Len(ch) = 3 /\ ch[3] = "?"
          THEN << Prefix2(ch) \o <<"Z">>, Prefix2(ch) \o <<"N">>, Prefix2(ch) \o <<"E">> >> \o rest
          ELSE <<ch>> \o rest

\* order-preserving removal of repeated entries (the seen/result loop)
RECURSIVE Unique(_, _)
Unique(s, seen) ==
  IF s = <<>> THEN <<>>
  ELSE IF Head(s) \in seen THEN Unique(Tail(s), seen)
       ELSE <<Head(s)>> \o Unique(Tail(s), seen \cup {Head(s)})

\* WaveformDownloader._resolve_station_channels
ResolveStationChannels(channels, station) ==
  LET station_prefixes == station.channel_types
      expanded == ExpandChannelPatterns(channels)
      requested_prefixes ==
        {Prefix2(Strip(channels[k])) : k \in {j \in 1..Len(channels) : Len(Strip(channels[j])) >= 2}}
      inter == station_prefixes \cap requested_prefixes
      chosen_prefixes == IF inter # {} THEN inter ELSE requested_prefixes
      filtered == SelectSeq(expanded, LAMBDA c : Len(c) >= 2 /\ Prefix2(c) \in chosen_prefixes)
      result == Unique(filtered, {})
  IN IF station_prefixes = {} THEN expanded
     ELSE IF result # <<>> THEN result ELSE expanded

\* ------------------------------------------------------------ bulk request
\* key = f"{event_id}-{network}.{station}"
ArrivalKey(event, station) ==
  event.event_id \o "-" \o station.network \o "." \o station.station

\* theoretical_arrivals.get(key, {}).get('P', 0)
PArrival(arrivals, event, station) ==
  LET key == ArrivalKey(event, station)
  IN IF key \in DOMAIN arrivals /\ "P" \in DOMAIN arrivals[key] THEN arrivals[key]["P"] ELSE 0

\* the tuples of one event / station pair, one per resolved channel
PairTuples(event, station, cfg) ==
  LET p_arrival == PArrival(cfg.theoretical_arrivals, event, station)
      starttime == event.time + p_arrival - cfg.time_before
      endtime == event.time + p_arrival + cfg.time_after
      chans == ResolveStationChannels(cfg.channels, station)
  IN [k \in 1..Len(chans) |->
        [net |-> station.network, sta |-> station.station, loc |-> cfg.location,
         cha |-> chans[k], start |-> starttime, end |-> endtime, event_id |-> event.event_id]]

\* WaveformDownloader._build_bulk_request: bulk_list and bulk_event_ids, kept
\* together as one list of records (field event_id is the parallel array)
BuildBulkRequest(events, stations, cfg) ==
  Concat([e \in 1..Len(events) |->
            Concat([s \in 1..Len(stations) |-> PairTuples(events[e], stations[s], cfg)])])

\* ------------------------------------------------ providers and grouping
\* WaveformDownloader.FDSN_PROVIDER_ENDPOINTS
FDSN_PROVIDER_ENDPOINTS ==
  [k \in {"IRIS", "ORFEUS", "RESIF", "INGV", "ETH", "NCEDC", "SCEDC", "USGS", "BGR",
          "AUSPASS", "ICGC", "UIB-NORSAR", "IPGP", "LMU", "KOERI", "KNMI", "NOA",
          "GEONET", "ISC", "GEOFON", "ETHZ"} |->
     IF k = "GEOFON" THEN "GFZ" ELSE IF k = "ETHZ" THEN "ETH" ELSE k]

\* get_client_for_provider, the name it resolves: key = provider_key or provider;
\* client_name = FDSN_PROVIDER_ENDPOINTS.get(key, provider)
ClientName(provider_key, provider) ==
  LET key == IF provider_key = None \/ provider_key = "" THEN provider ELSE provider_key
  IN IF key \in DOMAIN FDSN_PROVIDER_ENDPOINTS THEN FDSN_PROVIDER_ENDPOINTS[key] ELSE provider

\* stations_by_provider: the keys in order of first appearance (dict order)
ProviderKeys(stations) == Unique([k \in 1..Len(stations) |-> stations[k].provider], {})

\* stations_by_provider[prov_key]
GroupStations(stations, prov_key) == SelectSeq(stations, LAMBDA s : s.provider = prov_key)

\* ------------------------------------------------------------- the inputs
BHZ == <<"B", "H", "Z">>

HHZ == <<"H", "H", "Z">>

StaANMO == [network |-> "IU", station |-> "ANMO", provider |-> "IRIS", channel_types |-> {<<"B", "H">>}]

StaAPE == [network |-> "GE", station |-> "APE", provider |-> "GEOFON", channel_types |-> {}]

StaS1 == [network |-> "XX", station |-> "S1", provider |-> None, channel_types |-> {<<"H", "H">>}]

StationLists == { <<StaANMO>>, <<StaANMO, StaAPE>>, <<StaS1, StaANMO>> }

\* event k of the catalogue: ids e1, e2, ... with origin times 100 s apart
EventOf(k) == [event_id |-> "e" \o ToString(k), time |-> 100 * k]

EventList(n) == [k \in 1..n |-> EventOf(k)]

\* a table with a P time for one pair, only an S time for another, and no
\* entry for the rest
ArrivalTables == { ("e1-IU.ANMO" :> [P |-> 5]) @@ ("e1-GE.APE" :> [S |-> 9]) }

ChannelSpecs == { <<BHZ, HHZ>> }

TimeBefores == {1}

TimeAfters == {2}

\* fill_value: <<v>> for a number, <<>> for None
FillValues == { <<0>> }

AllConfigs ==
  [events : {EventList(n) : n \in 0..MaxEvents},
   stations : StationLists,
   theoretical_arrivals : ArrivalTables,
   time_before : TimeBefores,
   time_after : TimeAfters,
   channels : ChannelSpecs,
   location : {"*"},
   bulk_download : BOOLEAN,
   chunk_size : 1..MaxChunk,
   max_retries : 0..MaxRetries,
   retry_delay : {2},
   provider : {"IRIS"},
   clean_gaps : BOOLEAN,
   fill_value : FillValues,
   max_gap : {10}]

\* ------------------------------------------------------------------ state
VARIABLES
  cancel,     \* WaveformDownloader._cancel
  runs,       \* one record per WorkerThread that runs download_waveforms
  tasks,      \* ProgressManager.tasks
  emitted,    \* signals emitted by ProgressManager (task_completed / task_failed)
  gui,        \* MainWindow: the buttons of the Download tab, theoretical_arrivals
  computes,   \* the WorkerThreads started by _on_compute_arrivals
  queue,      \* signals of worker threads queued for the GUI thread
  futures,    \* StationService: the futures submitted by search_stations
  search,     \* StationService: the call of search_stations in progress
  pure,       \* a call of one of the functions without side effects, and its result
  taup,       \* WaveformDownloader.taup_model and the arrival computations so far
  detail,     \* EventService: the call of get_event_details in progress
  threads     \* threads calling ProgressManager methods on one task

guiVars == <<gui, computes, queue>>

libVars == <<pure, taup, detail, threads>>

\* everything but the ProgressManager and libVars
appVars == <<cancel, runs, gui, computes, queue, futures, search>>

staVars == <<futures, search>>

Workers == 1..MaxWorkers

TaskIds == {"waveform_download", "station_search", "event_detail"}

\* ------------------------------------------------------- ProgressManager
NoTask == [exists |-> FALSE, total |-> 0, current |-> 0, status |-> "", error_message |-> ""]

\* ProgressManager.create_task (ProgressTask.__init__)
CreateTask(ts, task_id, total) ==
  [ts EXCEPT ![task_id] =
     [exists |-> TRUE, total |-> total, current |-> 0, status |-> "in_progress", error_message |-> ""]]

\* ProgressManager.update_task
UpdateTask(ts, task_id, current) ==
  IF ~ts[task_id].exists THEN ts
  ELSE [ts EXCEPT ![task_id].current = Min(current, ts[task_id].total)]

\* ProgressManager.complete_task, the task record
CompleteTask(ts, task_id, success, error_message) ==
  IF ~ts[task_id].exists THEN ts
  ELSE [ts EXCEPT ![task_id].status = IF success THEN "completed" ELSE "failed",
                  ![task_id].error_message = error_message,
                  ![task_id].current = IF success THEN ts[task_id].total ELSE @]

\* ProgressManager.complete_task, the signal it emits
CompleteSignal(em, ts, task_id, success) ==
  IF ~ts[task_id].exists THEN em
  ELSE IF success THEN [em EXCEPT !.task_completed[task_id] = @ + 1]
       ELSE [em EXCEPT !.task_failed[task_id] = @ + 1]

\* ------------------------------------------------------ provider responses
\* A trace: the samples it holds (1 Hz, one per second of the window), the
\* event-id tag put on it by the downloader ("" when untagged), the events
\* whose requests produced its samples and the number of masked samples.
NoTag == ""

TraceOf(t, from, to) ==
  [net |-> t.net, sta |-> t.sta, loc |-> "00", cha |-> t.cha,
   samples |-> from..to, event_id |-> NoTag, req_events |-> {t.event_id}, gap_samples |-> 0]

\* what a provider may answer to one tuple: the whole window, or the window
\* in two segments with the samples between them missing
WholeTrace(t) == <<TraceOf(t, t.start, t.end)>>

SplitTrace(t) == <<TraceOf(t, t.start, t.start), TraceOf(t, t.end, t.end)>>

\* how the providers answer in one run when a request succeeds: one trace per
\* tuple in tuple order, the first tuple of the request in two segments, or
\* no data for the first tuple of a request of several tuples
AnswerStyles == {"full", "extra", "short"}

\* the outcomes of one request: a failure (exception) or an answer
Outcomes == {"fail", "ok"}

Response(chunk, outcome) ==
  LET rest == Concat([k \in 1..(Len(chunk) - 1) |-> WholeTrace(chunk[k + 1])])
  IN CASE outcome = "extra" -> SplitTrace(chunk[1]) \o rest
       [] outcome = "short" /\ Len(chunk) >= 2 -> rest
       [] OTHER -> WholeTrace(chunk[1]) \o rest

\* ----------------------------------------------------- download_waveforms
Unset == [kind |-> "unset", traces |-> <<>>]

ReturnNone == [kind |-> "none", traces |-> <<>>]

ReturnStream(st) == [kind |-> "stream", traces |-> st]

IdleRun ==
  [pc |-> "idle", cfg |-> <<>>, answers |-> "full", start_flag |-> FALSE, client_cache |-> {},
   grp |-> 1, i |-> 0, attempt |-> 0, chk |-> FALSE,
   ev |-> 1, si |-> 1, ci |-> 1, processed |-> 0,
   all_streams |-> <<>>, result |-> Unset, cancelled |-> FALSE, raised |-> FALSE,
   cleaned |-> FALSE, reqs |-> <<>>, cancel_req |-> FALSE]

\* a worker about to enter download_waveforms with the arguments cfg, the
\* providers answering in style answers
StartedRun(cfg, answers) == [IdleRun EXCEPT !.pc = "start", !.cfg = cfg, !.answers = answers]

\* `if self._cancel:` before any work (line 342)
StartCancelNever(flag) == FALSE

StartCancelObserved(flag) == flag

\* `if self._cancel:` before a chunk of bulk mode (line 372)
ChunkCancelNever(flag) == FALSE

ChunkCancelObserved(flag) == flag

\* `if self._cancel:` before an event of individual mode (line 408)
EventCancelObserved(flag) == flag

\* a retry loop that runs once more than max_retries
HasAttemptOneMore(attempt, max_retries) == attempt <= max_retries

\* range(max_retries): is there an iteration for this attempt number
HasAttempt(attempt, max_retries) == attempt < max_retries

\* `if attempt < max_retries - 1:` the failure is retried after a pause
RetryAfterFailure(attempt, max_retries) == attempt < max_retries - 1

\* a bulk list built from all the stations of the run instead of the group's
BulkOfAllStations(cfg, grp) == BuildBulkRequest(cfg.events, cfg.stations, cfg)

\* bulk_list of the grp-th provider group
BulkOfGroup(cfg, grp) ==
  BuildBulkRequest(cfg.events, GroupStations(cfg.stations, ProviderKeys(cfg.stations)[grp]), cfg)

\* bulk_list of the provider group being processed
CurrentBulk(r) == BulkOfGroup(r.cfg, r.grp)

\* a chunk count rounded down: the last, shorter chunk is never formed
NChunksFloor(n, chunk_size) == n \div chunk_size

\* n_chunks = (len(bulk_list) + chunk_size - 1) // chunk_size
NChunks(n, chunk_size) == (n + chunk_size - 1) \div chunk_size

StartIdx(i, chunk_size) == i * chunk_size

EndIdx(i, chunk_size, n) == Min((i + 1) * chunk_size, n)

\* chunk = bulk_list[start_idx:end_idx]
ChunkOf(bulk, i, chunk_size) ==
  SubSeq(bulk, StartIdx(i, chunk_size) + 1, EndIdx(i, chunk_size, Len(bulk)))

\* an annotation loop that indexes the event ids by the position in the
\* response alone, forgetting where the chunk starts
TagBulkFromZero(st, start_idx, bulk) ==
  [j \in 1..Len(st) |->
     IF j - 1 < Len(bulk) THEN [st[j] EXCEPT !.event_id = bulk[j].event_id] ELSE st[j]]

\* the annotation loop: trace j of the response gets bulk_event_ids[start_idx + j]
\* when that index exists
TagBulk(st, start_idx, bulk) ==
  [j \in 1..Len(st) |->
     IF start_idx + (j - 1) < Len(bulk)
     THEN [st[j] EXCEPT !.event_id = bulk[start_idx + j].event_id]
     ELSE st[j]]

\* the annotation loop of individual mode
TagAll(st, event_id) == [j \in 1..Len(st) |-> [st[j] EXCEPT !.event_id = event_id]]

\* ------------------------------------------------------- merge_and_cleanup
TraceId(tr) == <<tr.net, tr.sta, tr.loc, tr.cha>>

SetMin(S) == CHOOSE x \in S : \A y \in S : x <= y

SetMax(S) == CHOOSE x \in S : \A y \in S : x >= y

RECURSIVE UnionAll(_)
UnionAll(ss) == IF ss = <<>> THEN {} ELSE Head(ss) \cup UnionAll(Tail(ss))

\* Stream.merge(method=1, fill_value=...) on the traces of one id: one trace
\* with the header of the earliest trace; the samples missing between the
\* segments are set to fill_value, or masked when fill_value is None
MergeGroup(group, fill_value) ==
  LET starts == [k \in 1..Len(group) |-> SetMin(group[k].samples)]
      first == CHOOSE k \in 1..Len(group) :
                 \A j \in 1..Len(group) : starts[k] < starts[j] \/ (starts[k] = starts[j] /\ k <= j)
      have == UnionAll([k \in 1..Len(group) |-> group[k].samples])
      span == SetMin(have)..SetMax(have)
      missing == span \ have
  IN [group[first] EXCEPT
        !.samples = IF fill_value # <<>> THEN span ELSE have,
        !.req_events = UnionAll([k \in 1..Len(group) |-> group[k].req_events]),
        !.gap_samples = IF fill_value # <<>> THEN 0 ELSE Cardinality(missing)]

\* WaveformDownloader.merge_and_cleanup
MergeAndCleanup(stream, fill_value, max_gap) ==
  LET ids == Unique([k \in 1..Len(stream) |-> TraceId(stream[k])], {})
      merged == [k \in 1..Len(ids) |->
                   MergeGroup(SelectSeq(stream, LAMBDA tr : TraceId(tr) = ids[k]), fill_value)]
  IN SelectSeq(merged, LAMBDA tr : ~(tr.gap_samples > 0 /\ tr.gap_samples > max_gap))

\* ------------------------------------------------- download_waveforms steps
Cfg(w) == runs[w].cfg

\* the cancel branches (lines 342-345, 372-375, 408-411)
ReturnCancelled(w) ==
  /\ tasks' = CompleteTask(tasks, "waveform_download", FALSE, "cancelled")
  /\ emitted' = CompleteSignal(emitted, tasks, "waveform_download", FALSE)
  /\ runs' = [runs EXCEPT ![w].pc = "done", ![w].cancelled = TRUE,
                          ![w].result = ReturnStream(runs[w].all_streams)]

\* the handler of the outer try (lines 471-474)
ReturnFailure(w) ==
  /\ tasks' = CompleteTask(tasks, "waveform_download", FALSE, "error")
  /\ emitted' = CompleteSignal(emitted, tasks, "waveform_download", FALSE)
  /\ runs' = [runs EXCEPT ![w].pc = "done", ![w].raised = TRUE, ![w].result = ReturnNone]

\* lines 311-347: the task is created, the flag is read once before any work
DlBegin(w) ==
  /\ runs[w].pc = "start"
  /\ LET created == CreateTask(tasks, "waveform_download",
                               Len(Cfg(w).events) * Len(Cfg(w).stations))
     IN IF StartCancelObserved(cancel)
        THEN /\ tasks' = CompleteTask(created, "waveform_download", FALSE, "cancelled")
             /\ emitted' = CompleteSignal(emitted, created, "waveform_download", FALSE)
             /\ runs' = [runs EXCEPT ![w].pc = "done", ![w].cancelled = TRUE,
                                     ![w].start_flag = cancel,
                                     ![w].result = ReturnStream(runs[w].all_streams)]
        ELSE /\ tasks' = created
             /\ emitted' = emitted
             /\ runs' = [runs EXCEPT ![w].pc = IF Cfg(w).bulk_download THEN "group" ELSE "event",
                                     ![w].start_flag = cancel]
  /\ UNCHANGED <<cancel, guiVars, staVars, libVars>>

\* lines 354-365: next provider group, its client (created on first use, which
\* may raise) and its bulk list
DlGroup(w) ==
  /\ runs[w].pc = "group"
  /\ LET r == runs[w]
         keys == ProviderKeys(r.cfg.stations)
     IN IF r.grp > Len(keys)
        THEN /\ runs' = [runs EXCEPT ![w].pc = "post"]
             /\ UNCHANGED <<tasks, emitted>>
        ELSE LET name == ClientName(keys[r.grp], r.cfg.provider)
             IN \E created \in (IF name \in r.client_cache THEN {TRUE} ELSE BOOLEAN) :
                  IF ~created
                  THEN ReturnFailure(w)
                  ELSE /\ runs' = IF CurrentBulk(r) = <<>>
                                  THEN [runs EXCEPT ![w].client_cache = @ \cup {name},
                                                    ![w].grp = @ + 1]
                                  ELSE [runs EXCEPT ![w].client_cache = @ \cup {name},
                                                    ![w].i = 0, ![w].pc = "chunk"]
                       /\ UNCHANGED <<tasks, emitted>>
  /\ UNCHANGED <<cancel, guiVars, staVars, libVars>>

\* lines 367-377: next chunk of the group; the flag is read before the chunk
DlChunk(w) ==
  /\ runs[w].pc = "chunk"
  /\ LET r == runs[w]
         bulk == CurrentBulk(r)
     IN IF r.i >= NChunks(Len(bulk), r.cfg.chunk_size)
        THEN /\ runs' = [runs EXCEPT ![w].grp = @ + 1, ![w].i = 0, ![w].pc = "group"]
             /\ UNCHANGED <<tasks, emitted>>
        ELSE IF ChunkCancelObserved(cancel)
        THEN ReturnCancelled(w)
        ELSE /\ runs' = IF HasAttempt(0, r.cfg.max_retries)
                        THEN [runs EXCEPT ![w].attempt = 0, ![w].chk = cancel, ![w].pc = "attempt"]
                        ELSE [runs EXCEPT ![w].i = @ + 1]
             /\ UNCHANGED <<tasks, emitted>>
  /\ UNCHANGED <<cancel, guiVars, staVars, libVars>>

\* lines 377-402: one attempt of get_waveforms_bulk on the chunk
DlBulkAttempt(w) ==
  /\ runs[w].pc = "attempt"
  /\ LET r == runs[w]
         bulk == CurrentBulk(r)
         cs == r.cfg.chunk_size
         chunk == ChunkOf(bulk, r.i, cs)
         name == ClientName(ProviderKeys(r.cfg.stations)[r.grp], r.cfg.provider)
         req == [client |-> name, mode |-> "bulk", grp |-> r.grp, chunk |-> r.i,
                 tuples |-> chunk, attempt |-> r.attempt, chk |-> r.chk]
     IN \E outcome \in Outcomes :
          IF outcome # "fail"
          THEN LET st == TagBulk(Response(chunk, r.answers), StartIdx(r.i, cs), bulk)
               IN /\ runs' = [runs EXCEPT
                       ![w].all_streams = @ \o st,
                       ![w].reqs = Append(@, req @@ [ok |-> TRUE, slept |-> FALSE, logged |-> "none"]),
                       ![w].i = @ + 1, ![w].pc = "chunk"]
                  /\ tasks' = UpdateTask(tasks, "waveform_download", EndIdx(r.i, cs, Len(bulk)))
                  /\ emitted' = emitted
          ELSE LET slept == RetryAfterFailure(r.attempt, r.cfg.max_retries)
                   failed == Append(r.reqs, req @@ [ok |-> FALSE, slept |-> slept,
                               logged |-> IF slept THEN "warning" ELSE "error"])
               IN /\ runs' = IF HasAttempt(r.attempt + 1, r.cfg.max_retries)
                             THEN [runs EXCEPT ![w].reqs = failed, ![w].attempt = @ + 1]
                             ELSE [runs EXCEPT ![w].reqs = failed, ![w].i = @ + 1,
                                               ![w].pc = "chunk"]
                  /\ UNCHANGED <<tasks, emitted>>
  /\ UNCHANGED <<cancel, guiVars, staVars, libVars>>

\* lines 407-413: next event of individual mode; the flag is read before it
DlEvent(w) ==
  /\ runs[w].pc = "event"
  /\ LET r == runs[w]
     IN IF r.ev > Len(r.cfg.events)
        THEN /\ runs' = [runs EXCEPT ![w].pc = "post"]
             /\ UNCHANGED <<tasks, emitted>>
        ELSE IF EventCancelObserved(cancel)
        THEN ReturnCancelled(w)
        ELSE /\ runs' = [runs EXCEPT ![w].si = 1, ![w].chk = cancel, ![w].pc = "station"]
             /\ UNCHANGED <<tasks, emitted>>
  /\ UNCHANGED <<cancel, guiVars, staVars, libVars>>

\* lines 415-431: next station of the event, its window, channels and client
DlStation(w) ==
  /\ runs[w].pc = "station"
  /\ LET r == runs[w]
     IN IF r.si > Len(r.cfg.stations)
        THEN /\ runs' = [runs EXCEPT ![w].ev = @ + 1, ![w].pc = "event"]
             /\ UNCHANGED <<tasks, emitted>>
        ELSE LET name == ClientName(r.cfg.stations[r.si].provider, r.cfg.provider)
             IN \E created \in (IF name \in r.client_cache THEN {TRUE} ELSE BOOLEAN) :
                  IF ~created
                  THEN ReturnFailure(w)
                  ELSE /\ runs' = [runs EXCEPT ![w].client_cache = @ \cup {name},
                                               ![w].ci = 1, ![w].attempt = 0,
                                               ![w].pc = "channel"]
                       /\ UNCHANGED <<tasks, emitted>>
  /\ UNCHANGED <<cancel, guiVars, staVars, libVars>>

\* lines 431-458: one attempt of get_waveforms for the current channel, or,
\* after the last channel, the progress update of the station
DlChannel(w) ==
  /\ runs[w].pc = "channel"
  /\ LET r == runs[w]
         event == r.cfg.events[r.ev]
         station == r.cfg.stations[r.si]
         tuples == PairTuples(event, station, r.cfg)
     IN IF r.ci > Len(tuples)
        THEN /\ runs' = [runs EXCEPT ![w].processed = @ + 1, ![w].si = @ + 1,
                                     ![w].pc = "station"]
             /\ tasks' = UpdateTask(tasks, "waveform_download", r.processed + 1)
             /\ emitted' = emitted
        ELSE IF ~HasAttempt(r.attempt, r.cfg.max_retries)
        THEN /\ runs' = [runs EXCEPT ![w].ci = @ + 1, ![w].attempt = 0]
             /\ UNCHANGED <<tasks, emitted>>
        ELSE LET req == [client |-> ClientName(station.provider, r.cfg.provider),
                         mode |-> "single", grp |-> r.si, chunk |-> r.ci,
                         tuples |-> <<tuples[r.ci]>>, attempt |-> r.attempt, chk |-> r.chk]
             IN \E outcome \in Outcomes :
                  IF outcome # "fail"
                  THEN /\ runs' = [runs EXCEPT
                            ![w].all_streams =
                               @ \o TagAll(Response(<<tuples[r.ci]>>, r.answers), event.event_id),
                            ![w].reqs = Append(@, req @@ [ok |-> TRUE, slept |-> FALSE,
                                                          logged |-> "none"]),
                            ![w].ci = @ + 1, ![w].attempt = 0]
                       /\ UNCHANGED <<tasks, emitted>>
                  ELSE LET slept == RetryAfterFailure(r.attempt, r.cfg.max_retries)
                           failed == Append(r.reqs, req @@ [ok |-> FALSE, slept |-> slept,
                                       logged |-> IF slept THEN "none" ELSE "debug"])
                       IN /\ runs' = IF HasAttempt(r.attempt + 1, r.cfg.max_retries)
                                     THEN [runs EXCEPT ![w].reqs = failed, ![w].attempt = @ + 1]
                                     ELSE [runs EXCEPT ![w].reqs = failed, ![w].ci = @ + 1,
                                                       ![w].attempt = 0]
                          /\ UNCHANGED <<tasks, emitted>>
  /\ UNCHANGED <<cancel, guiVars, staVars, libVars>>

\* lines 460-469: optional gap cleanup, the task is completed, the stream returned
DlFinish(w) ==
  /\ runs[w].pc = "post"
  /\ LET r == runs[w]
         clean == r.cfg.clean_gaps /\ Len(r.all_streams) > 0
         out == IF clean
                THEN MergeAndCleanup(r.all_streams, r.cfg.fill_value, r.cfg.max_gap)
                ELSE r.all_streams
     IN /\ runs' = [runs EXCEPT ![w].pc = "done", ![w].cleaned = clean,
                                ![w].all_streams = out, ![w].result = ReturnStream(out)]
        /\ tasks' = CompleteTask(tasks, "waveform_download", TRUE, "")
        /\ emitted' = CompleteSignal(emitted, tasks, "waveform_download", TRUE)
  /\ UNCHANGED <<cancel, guiVars, staVars, libVars>>

DlStep(w) ==
  \/ DlBegin(w)
  \/ DlGroup(w)
  \/ DlChunk(w)
  \/ DlBulkAttempt(w)
  \/ DlEvent(w)
  \/ DlStation(w)
  \/ DlChannel(w)
  \/ DlFinish(w)

\* a worker that was started and has not returned from download_waveforms
InProgress(w) == runs[w].pc \notin {"idle", "done", "returned"}

\* history: every run in progress has seen a cancel request since it started
NoteCancel ==
  [w \in Workers |-> IF InProgress(w) THEN [runs[w] EXCEPT !.cancel_req = TRUE] ELSE runs[w]]

\* WaveformDownloader.cancel, called from another thread while a run is
\* pending or in progress
Cancel ==
  /\ ~cancel
  /\ \E w \in Workers : InProgress(w)
  /\ cancel' = TRUE
  /\ runs' = NoteCancel
  /\ UNCHANGED <<tasks, emitted, guiVars, staVars, libVars>>

\* ------------------------------------------------- MainWindow, Download tab
\* the widgets as _build_download_tab leaves them, no arrivals computed yet
GuiInit ==
  [btn_compute_arrivals |-> TRUE, btn_download |-> FALSE, btn_stop |-> FALSE,
   btn_save_streams |-> FALSE, theoretical_arrivals |-> "empty"]

ComputeIds == 1..MaxCompute

\* the arguments _on_download reads from the widgets
GuiConfigs ==
  {c \in AllConfigs : /\ c.events = EventList(1) /\ c.stations = <<StaANMO>>
                      /\ c.chunk_size = 1 /\ c.max_retries = 1 /\ ~c.clean_gaps}

\* WaveformDownloader.reset_cancel: the value it gives the flag
ResetSkipped == cancel

ResetCancel == FALSE

\* MainWindow._on_compute_arrivals: a WorkerThread is started on
\* compute_theoretical_arrivals; the button stays enabled meanwhile
OnComputeArrivals ==
  /\ gui.btn_compute_arrivals
  /\ \E c \in ComputeIds :
       /\ computes[c] = "idle"
       /\ \A d \in ComputeIds : d < c => computes[d] # "idle"
       /\ computes' = [computes EXCEPT ![c] = "running"]
  /\ UNCHANGED <<cancel, runs, tasks, emitted, gui, queue, staVars, libVars>>

\* WorkerThread.run of a compute worker: the arrival table (possibly empty) is
\* emitted with finished, an exception with error
ComputeRun(c) ==
  /\ computes[c] = "running"
  /\ computes' = [computes EXCEPT ![c] = "emitted"]
  /\ \E sig \in {[kind |-> "compute_finished", result |-> "set"],
                 [kind |-> "compute_finished", result |-> "empty"],
                 [kind |-> "compute_error", result |-> "empty"]} :
       queue' = Append(queue, sig)
  /\ UNCHANGED <<cancel, runs, tasks, emitted, gui, staVars, libVars>>

\* MainWindow._on_download with arrivals present: the flag is reset, the
\* buttons are switched and a WorkerThread is started on download_waveforms
OnDownload ==
  /\ gui.btn_download
  /\ gui.theoretical_arrivals = "set"
  /\ \E w \in Workers, cfg \in GuiConfigs :
       /\ runs[w].pc = "idle"
       /\ \A v \in Workers : v < w => runs[v].pc # "idle"
       /\ runs' = [runs EXCEPT ![w] = StartedRun(cfg, "full")]
  /\ cancel' = ResetCancel
  /\ gui' = [gui EXCEPT !.btn_stop = TRUE, !.btn_download = FALSE,
                        !.btn_compute_arrivals = FALSE]
  /\ UNCHANGED <<tasks, emitted, computes, queue, staVars, libVars>>

\* MainWindow._on_stop_download
OnStopDownload ==
  /\ gui.btn_stop
  /\ cancel' = TRUE
  /\ runs' = NoteCancel
  /\ gui' = [gui EXCEPT !.btn_stop = FALSE]
  /\ UNCHANGED <<tasks, emitted, computes, queue, staVars, libVars>>

\* a worker whose call has returned: the locals of download_waveforms are
\* gone, the result and the history of the run remain
ReturnedRun(r) ==
  [IdleRun EXCEPT !.pc = "returned", !.result = r.result, !.cancelled = r.cancelled,
                  !.cancel_req = r.cancel_req, !.raised = r.raised]

\* WorkerThread.run of a download worker: download_waveforms has returned and
\* its result is emitted with finished
DlReturn(w) ==
  /\ runs[w].pc = "done"
  /\ runs' = [runs EXCEPT ![w] = ReturnedRun(@)]
  /\ queue' = Append(queue, [kind |-> "download_finished",
                             result |-> IF runs[w].result.traces = <<>> THEN "empty" ELSE "set"])
  /\ UNCHANGED <<cancel, tasks, emitted, gui, computes, staVars, libVars>>

\* the GUI thread handles the next queued signal: combined_finished of a
\* compute worker, its on_error, or on_finished of a download worker
Deliver ==
  /\ queue # <<>>
  /\ queue' = Tail(queue)
  /\ LET sig == Head(queue)
     IN gui' = CASE sig.kind = "compute_finished" ->
                      [gui EXCEPT !.btn_download = TRUE, !.theoretical_arrivals = sig.result]
                 [] sig.kind = "download_finished" ->
                      [gui EXCEPT !.btn_stop = FALSE, !.btn_compute_arrivals = TRUE,
                                  !.btn_save_streams = @ \/ sig.result = "set"]
                 [] OTHER -> gui
  /\ UNCHANGED <<cancel, runs, tasks, emitted, computes, staVars, libVars>>

\* ------------------------------------------------------- StationService
\* StationService.PROVIDER_ENDPOINTS, the entries of the providers used here
PROVIDER_ENDPOINTS == [p \in {"IRIS", "GEOFON"} |-> IF p = "GEOFON" THEN "GFZ" ELSE p]

\* a station dictionary as _query_provider builds it; 'providers' is <<>>
\* while the dictionary has no such key
StationDict(network, station, latitude, provider) ==
  [network |-> network, station |-> station, latitude |-> latitude,
   provider |-> provider, providers |-> <<>>]

\* what client.get_stations returns, normalised: IU.ANMO is served by both
\* data centres with different metadata, and GFZ lists it in two epochs
StationsList(provider) ==
  IF PROVIDER_ENDPOINTS[provider] = "IRIS"
  THEN <<StationDict("IU", "ANMO", 34, provider), StationDict("XX", "S1", 10, provider)>>
  ELSE <<StationDict("GE", "APE", 37, provider), StationDict("IU", "ANMO", 35, provider),
         StationDict("IU", "ANMO", 36, provider)>>

\* the provider lists a caller may pass: the ticked providers, one unknown
ProviderNames == {"IRIS", "GEOFON", "BOGUS"}

ProviderLists ==
  {s \in UNION {[1..n -> ProviderNames] : n \in 0..MaxProviders} :
     \A a, b \in 1..Len(s) : a # b => s[a] # s[b]}

\* the calls: search_stations, or search_stations_by_event_distance with an
\* event at latitude 30 on the stations' meridian and distances 2..6 degrees
SearchCalls ==
  [providers : ProviderLists, start_ok : BOOLEAN, by_distance : BOOLEAN,
   event_lat : {30}, min_distance_deg : {2}, max_distance_deg : {6}]

NoSearch ==
  [pc |-> "idle", call |-> <<>>, all_stations |-> <<>>, completed |-> 0,
   collected |-> {}, failed |-> {}, result |-> <<>>]

CalledSearch(call) == [NoSearch EXCEPT !.pc = "called", !.call = call]

StaIdle ==
  /\ futures = <<>>
  /\ search = NoSearch

\* executor.submit(self._query_provider, provider, ...)
Submit(provider) ==
  [provider |-> provider, state |-> "pending", attempt |-> 0,
   log |-> <<>>, waits |-> <<>>, value |-> <<>>]

\* f"{station['network']}.{station['station']}"
StationKey(station) == station.network \o "." \o station.station

\* _deduplicate_stations, the duplicate branch
AddProviderUnchecked(existing, station) ==
  IF station.provider # existing.provider
  THEN LET own == IF existing.providers = <<>> THEN <<existing.provider>>
                  ELSE existing.providers
       IN [existing EXCEPT !.providers = Append(own, station.provider)]
  ELSE existing

\* a deduplication that drops a duplicate without recording who returned it
AddProviderDropped(existing, station) == existing

AddProvider(existing, station) ==
  IF station.provider # existing.provider
  THEN LET own == IF existing.providers = <<>> THEN <<existing.provider>>
                  ELSE existing.providers
       IN [existing EXCEPT !.providers =
             IF station.provider \in Range(own) THEN own
             ELSE Append(own, station.provider)]
  ELSE existing

RECURSIVE DedupFrom(_, _)
DedupFrom(stations, deduplicated) ==
  IF stations = <<>> THEN deduplicated
  ELSE LET station == Head(stations)
           seen == {k \in 1..Len(deduplicated) :
                      StationKey(deduplicated[k]) = StationKey(station)}
       IN IF seen = {}
          THEN DedupFrom(Tail(stations), Append(deduplicated, station))
          ELSE LET k == CHOOSE k \in seen : TRUE
               IN DedupFrom(Tail(stations),
                            [deduplicated EXCEPT ![k] = AddProvider(@, station)])

\* StationService._deduplicate_stations
DeduplicateStations(stations) == DedupFrom(stations, <<>>)

\* locations2degrees for two points on one meridian
LocationsToDegrees(lat1, lat2) == IF lat1 < lat2 THEN lat2 - lat1 ELSE lat1 - lat2

\* search_stations_by_event_distance, the filter over the search result
RECURSIVE FilterByDistance(_, _)
FilterByDistance(all_stations, call) ==
  IF all_stations = <<>> THEN <<>>
  ELSE LET sta == Head(all_stations)
           dist_deg == LocationsToDegrees(call.event_lat, sta.latitude)
           rest == FilterByDistance(Tail(all_stations), call)
       IN IF call.min_distance_deg <= dist_deg /\ dist_deg <= call.max_distance_deg
          THEN <<[station |-> sta, distance_deg |-> dist_deg]>> \o rest
          ELSE rest

\* _query_provider: wait_time = 2 ** attempt
BackoffWaitDoubled(attempt) == BackoffBase * Pow(BackoffBase, attempt)

BackoffWait(attempt) == Pow(BackoffBase, attempt)

\* _query_provider: one more attempt follows a failed one
QueryRetries(attempt, max_retries) == attempt < max_retries - 1

\* search_stations up to the end of the submit loop
StaSubmit ==
  /\ search.pc = "called"
  /\ IF search.call.providers = <<>>
     THEN /\ search' = [search EXCEPT !.pc = "returned", !.result = <<>>]
          /\ UNCHANGED <<futures, tasks>>
     ELSE /\ tasks' = CreateTask(tasks, "station_search", Len(search.call.providers))
          /\ futures' = [k \in 1..Len(search.call.providers) |->
                           Submit(search.call.providers[k])]
          /\ search' = [search EXCEPT !.pc = "collect"]
  /\ UNCHANGED <<cancel, runs, emitted, guiVars, libVars>>

\* the futures a pool thread is working on
Busy == {k \in 1..Len(futures) : futures[k].state \in {"running", "hung"}}

\* a pool thread takes a queued call of _query_provider and runs it up to the
\* retry loop
QueryStart(k) ==
  /\ k \in 1..Len(futures)
  /\ futures[k].state = "pending"
  /\ Cardinality(Busy) < PoolSize
  /\ futures' = [futures EXCEPT ![k].state =
       IF futures[k].provider \notin DOMAIN PROVIDER_ENDPOINTS THEN "done"
       ELSE IF ~search.call.start_ok THEN "raised"
       ELSE "running"]
  /\ UNCHANGED <<cancel, runs, tasks, emitted, guiVars, libVars, search>>

\* one pass of the retry loop of _query_provider: the request succeeds, fails
\* (followed by the sleep, or by the final return) or never completes
AttemptResult(f, outcome) ==
  CASE outcome = "ok" ->
         [f EXCEPT !.state = "done", !.value = StationsList(f.provider),
                   !.log = Append(@, outcome)]
    [] outcome = "fail" ->
         IF QueryRetries(f.attempt, QueryMaxRetries)
         THEN [f EXCEPT !.attempt = @ + 1, !.log = Append(@, outcome),
                        !.waits = Append(@, BackoffWait(f.attempt))]
         ELSE [f EXCEPT !.state = "done", !.value = <<>>, !.log = Append(@, outcome)]
    [] OTHER -> [f EXCEPT !.state = "hung", !.log = Append(@, outcome)]

QueryAttempt(k) ==
  /\ k \in 1..Len(futures)
  /\ futures[k].state = "running"
  /\ futures[k].attempt < QueryMaxRetries
  /\ \E outcome \in {"ok", "fail", "hang"} :
       futures' = [futures EXCEPT ![k] = AttemptResult(@, outcome)]
  /\ UNCHANGED <<cancel, runs, tasks, emitted, guiVars, libVars, search>>

\* future.result(timeout=120) on a future
FutureResult(f) ==
  CASE f.state = "done" -> [kind |-> "value", stations |-> f.value]
    [] f.state = "raised" -> [kind |-> "error", stations |-> <<>>]
    [] OTHER -> [kind |-> "timeout", stations |-> <<>>]

\* the futures as_completed(futures) can yield next
Completed == {k \in 1..Len(futures) : futures[k].state \in {"done", "raised"}}

\* one pass of the collection loop of search_stations
Collect(k) ==
  /\ search.pc = "collect"
  /\ k \in Completed \ search.collected
  /\ LET r == FutureResult(futures[k])
     IN search' = [search EXCEPT
          !.all_stations = IF r.kind = "value" THEN @ \o r.stations ELSE @,
          !.failed = IF r.kind = "value" THEN @ ELSE @ \cup {k},
          !.collected = @ \cup {k},
          !.completed = @ + 1]
  /\ tasks' = UpdateTask(tasks, "station_search", search.completed + 1)
  /\ UNCHANGED <<cancel, runs, emitted, guiVars, libVars, futures>>

\* search_stations after the collection loop, and the distance filter of
\* search_stations_by_event_distance
StaReturn ==
  /\ search.pc = "collect"
  /\ search.collected = 1..Len(futures)
  /\ LET deduplicated == DeduplicateStations(search.all_stations)
     IN search' = [search EXCEPT
          !.pc = "returned",
          !.result = IF search.call.by_distance
                     THEN FilterByDistance(deduplicated, search.call)
                     ELSE deduplicated]
  /\ tasks' = CompleteTask(tasks, "station_search", TRUE, "")
  /\ emitted' = CompleteSignal(emitted, tasks, "station_search", TRUE)
  /\ UNCHANGED <<cancel, runs, guiVars, libVars, futures>>

\* ---------------------------------------------- calls without side effects
NoCall == [op |-> "none", pc |-> "idle", args |-> <<>>, out |-> <<>>]

Called(op, args) == [op |-> op, pc |-> "called", args |-> args, out |-> <<>>]

\* the call returns out
Returns(op, out) ==
  /\ pure.op = op
  /\ pure.pc = "called"
  /\ pure' = [pure EXCEPT !.pc = "returned", !.out = out]

\* a call of _resolve_station_channels
CallResolveStationChannels ==
  /\ Returns("resolve_station_channels",
             ResolveStationChannels(pure.args.channels, pure.args.station))
  /\ UNCHANGED <<appVars, tasks, emitted, taup, detail, threads>>

\* a call of _build_bulk_request
CallBuildBulkRequest ==
  /\ Returns("build_bulk_request",
             BuildBulkRequest(pure.args.events, pure.args.stations, pure.args.cfg))
  /\ UNCHANGED <<appVars, tasks, emitted, taup, detail, threads>>

\* a call of merge_and_cleanup
CallMergeAndCleanup ==
  /\ Returns("merge_and_cleanup",
             MergeAndCleanup(pure.args.stream, pure.args.fill_value, pure.args.max_gap))
  /\ UNCHANGED <<appVars, tasks, emitted, taup, detail, threads>>

\* safe_key = re.sub(r'[<>:"/\\|?*]+', '_', str(key)): every run of the listed
\* characters becomes one underscore; a key is a sequence of characters
RECURSIVE SafeKey(_)
SafeKey(key) ==
  LET special == {"<", ">", ":", "\"", "/", "\\", "|", "?", "*"}
  IN IF key = <<>> THEN <<>>
     ELSE IF Head(key) \notin special THEN <<Head(key)>> \o SafeKey(Tail(key))
     ELSE LET run == CHOOSE n \in 1..Len(key) :
                       /\ \A j \in 1..n : key[j] \in special
                       /\ n = Len(key) \/ key[n + 1] \notin special
          IN <<"_">> \o SafeKey(SubSeq(key, run + 1, Len(key)))

\* WaveformDownloader.save_waveforms: the value returned and the files under
\* output_dir/waveforms afterwards, path |-> the trace last written to it.
\* A trace's event_id is a sequence of characters, empty when it has none.
SaveWaveforms(stream, save_format) ==
  LET Key(tr) == IF tr.event_id # <<>> THEN tr.event_id ELSE <<ToString(SetMin(tr.samples))>>
      keys == Unique([k \in 1..Len(stream) |-> Key(stream[k])], {})
      \* the traces in the order they are written: group by group
      writes == Concat([g \in 1..Len(keys) |-> SelectSeq(stream, LAMBDA tr : Key(tr) = keys[g])])
      ext == CASE save_format \in {"SAC", "sac"} -> "sac"
               [] save_format \in {"MSEED", "mseed"} -> "mseed"
               [] OTHER -> None
      Path(tr) == <<SafeKey(Key(tr)), tr.net, tr.sta, tr.loc, tr.cha, ext>>
      paths == {Path(writes[k]) : k \in 1..Len(writes)}
      last(path) == SetMax({k \in 1..Len(writes) : Path(writes[k]) = path})
  IN IF ext = None /\ stream # <<>>
     THEN [ok |-> FALSE, files |-> <<>>]
     ELSE [ok |-> TRUE, files |-> [path \in paths |-> writes[last(path)]]]

\* a call of save_waveforms
CallSaveWaveforms ==
  /\ Returns("save_waveforms", SaveWaveforms(pure.args.stream, pure.args.save_format))
  /\ UNCHANGED <<appVars, tasks, emitted, taup, detail, threads>>

\* compute_theoretical_arrivals / compute_arrival_details called with a model
\* name of the velocity-model combo box: `taup = self._ensure_taup_model(model)`
\* creates a TauPyModel only while self.taup_model is None and returns
\* self.taup_model. Each call is logged with the model asked for, the model
\* used and whether a model was created.
ComputeArrivals ==
  /\ pure.op = "compute_arrivals"
  /\ Len(taup.calls) < MaxCompute
  /\ \E fn \in {"compute_theoretical_arrivals", "compute_arrival_details"},
        model \in {"iasp91", "ak135"} :
       LET created == taup.taup_model = None
           used == IF created THEN model ELSE taup.taup_model
       IN taup' = [taup_model |-> used,
                   calls |-> Append(taup.calls,
                                    [fn |-> fn, model |-> model, used |-> used, created |-> created])]
  /\ UNCHANGED <<appVars, tasks, emitted, pure, detail, threads>>

\* MagnitudeDepthFilter.compute_cutoff, in exact arithmetic:
\* 5.2 + (6.0 - 5.0) * (distance_deg - 30.0) / (180.0 - 30.0) - depth_km / 700.0,
\* as a multiple of 1/2100 (150 and 700 both divide 2100)
ComputeCutoff(distance_deg, depth_km) ==
  10920 + 14 * (distance_deg - 30) - 3 * depth_km

\* `if event['magnitude'] >= cutoff:` with the magnitude in tenths and the
\* cutoff in 1/2100
PassesCutoffStrict(magnitude, cutoff) == magnitude * 210 > cutoff

PassesCutoff(magnitude, cutoff) == magnitude * 210 >= cutoff

\* MagnitudeDepthFilter.apply_filter: the two lists returned and the input
\* list as it is after the call. dynamic_cutoff = round(cutoff, 2) is kept
\* in hundredths (no cutoff lies halfway between two hundredths).
ApplyFilter(events, enabled) ==
  LET cutoff(event) == ComputeCutoff(event.distance_deg, event.depth)
      event_with_cutoff(event) ==
        ("dynamic_cutoff" :> ((2 * cutoff(event) + 21) \div 42)) @@ event
      passes(event) == PassesCutoff(event.magnitude, cutoff(event))
  IN IF ~enabled
     THEN [passing |-> events, filtered_out |-> <<>>, events |-> events]
     ELSE [passing |-> [k \in 1..Len(SelectSeq(events, passes)) |->
                          event_with_cutoff(SelectSeq(events, passes)[k])],
           filtered_out |-> [k \in 1..Len(SelectSeq(events, LAMBDA e : ~passes(e))) |->
                               event_with_cutoff(SelectSeq(events, LAMBDA e : ~passes(e))[k])],
           events |-> events]

\* a call of apply_filter
CallApplyFilter ==
  /\ Returns("apply_filter", ApplyFilter(pure.args.events, pure.args.enabled))
  /\ UNCHANGED <<appVars, tasks, emitted, taup, detail, threads>>

\* ------------------------------------------------------ get_event_details
\* EventService.CATALOG_SOURCES, the names
CATALOG_SOURCES == {"IRIS", "USGS", "ISC"}

\* get_event_details up to the loop: the catalog_source check, create_task,
\* the parse of event_time and the list of catalogs to try. mt_catalogs is
\* <<>> for None and <<list>> for a list; the value returned is <<>> for
\* None and <<record>> for a record.
DetailBegin ==
  /\ detail.pc = "called"
  /\ LET call == detail.call
         default == <<call.catalog_source>>
                      \o (IF call.catalog_source # "ISC" THEN <<"ISC">> ELSE <<>>)
                      \o (IF call.catalog_source # "USGS" THEN <<"USGS">> ELSE <<>>)
         catalogs_to_try ==
           IF call.mt_catalogs = <<>> THEN default
           ELSE SelectSeq(call.mt_catalogs[1], LAMBDA c : c \in CATALOG_SOURCES)
         created == CreateTask(tasks, "event_detail", 100)
     IN IF call.catalog_source \notin CATALOG_SOURCES
        THEN /\ detail' = [detail EXCEPT !.pc = "returned", !.result = <<>>]
             /\ UNCHANGED <<tasks, emitted>>
        ELSE IF ~call.time_valid
        THEN /\ detail' = [detail EXCEPT !.pc = "returned", !.result = <<>>]
             /\ tasks' = CompleteTask(created, "event_detail", FALSE, "invalid time")
             /\ emitted' = CompleteSignal(emitted, created, "event_detail", FALSE)
        ELSE /\ detail' = [detail EXCEPT !.pc = "loop", !.catalogs_to_try = catalogs_to_try]
             /\ tasks' = created
             /\ UNCHANGED emitted
  /\ UNCHANGED <<appVars, pure, taup, threads>>

\* one iteration of `for attempt_catalog in catalogs_to_try:`; the answer of
\* a catalog is an exception of get_events or the events of the time window
DetailQuery ==
  /\ detail.pc = "loop"
  /\ detail.idx <= Len(detail.catalogs_to_try)
  /\ LET attempt_catalog == detail.catalogs_to_try[detail.idx]
         index == SetMin({k \in 1..Len(detail.catalogs_to_try) :
                            detail.catalogs_to_try[k] = attempt_catalog}) - 1
         answer == detail.answers[attempt_catalog]
         catalog == answer.events
         \* the closest event by time, the first of them
         best == CHOOSE k \in 1..Len(catalog) :
                   \A j \in 1..Len(catalog) :
                     catalog[k].dt < catalog[j].dt \/ (catalog[k].dt = catalog[j].dt /\ k <= j)
         best_match == [catalog[best] EXCEPT !.catalog = attempt_catalog]
         next == [detail EXCEPT !.idx = @ + 1, !.queried = Append(@, attempt_catalog)]
     IN /\ tasks' = UpdateTask(tasks, "event_detail", 20 + index * 20)
        /\ detail' =
             IF answer.raises \/ catalog = <<>> THEN next
             ELSE [next EXCEPT
                     !.event_found = IF @ = <<>> THEN <<best_match>> ELSE @,
                     !.mt_sources = IF best_match.mt /\ attempt_catalog \notin Range(@)
                                    THEN Append(@, attempt_catalog) ELSE @]
  /\ UNCHANGED <<appVars, emitted, pure, taup, threads>>

\* after the loop: update_task(70), "Event not found", or the record built
\* from the first event found; an event without magnitudes or without a
\* depth raises while the record is built and the except clause returns None
DetailFinish ==
  /\ detail.pc = "loop"
  /\ detail.idx > Len(detail.catalogs_to_try)
  /\ LET updated == UpdateTask(tasks, "event_detail", 70)
         mt_info(c) == [of |-> c, source_catalog |-> c]
         keys == detail.mt_sources
         built == detail.event_found # <<>> /\ detail.event_found[1].complete
         event_dict ==
           [catalog_source |-> detail.call.catalog_source,
            found_in |-> detail.event_found[1].catalog,
            has_moment_tensor |-> keys # <<>>,
            moment_tensor |-> IF keys # <<>> THEN <<mt_info(keys[1])>> ELSE <<>>,
            moment_tensors |-> IF Len(keys) > 1 THEN [c \in Range(keys) |-> mt_info(c)] ELSE <<>>]
     IN /\ detail' = [detail EXCEPT !.pc = "returned",
                                     !.result = IF built THEN <<event_dict>> ELSE <<>>]
        /\ tasks' = CompleteTask(updated, "event_detail", built,
                                  IF built THEN ""
                                  ELSE IF detail.event_found = <<>> THEN "Event not found"
                                  ELSE "Failed to build event details")
        /\ emitted' = CompleteSignal(emitted, updated, "event_detail", built)
  /\ UNCHANGED <<appVars, pure, taup, threads>>

\* ------------------------------------- ProgressManager called from threads
\* The methods take no lock. increment_task evaluates
\* `task.current = min(task.current + amount, task.total)` in two steps,
\* the read of task.current and the store, and another thread may run
\* between them. The threads call after the task has been created.
IncrementRead(t) ==
  /\ t \in DOMAIN threads
  /\ tasks["event_detail"].exists
  /\ threads[t].op = "increment_task"
  /\ threads[t].pc = "start"
  /\ threads' = [threads EXCEPT ![t].pc = "read",
                                 ![t].current = tasks["event_detail"].current]
  /\ UNCHANGED <<appVars, tasks, emitted, pure, taup, detail>>

IncrementWrite(t) ==
  /\ t \in DOMAIN threads
  /\ threads[t].pc = "read"
  /\ tasks' = [tasks EXCEPT !["event_detail"].current =
                               Min(threads[t].current + 1, tasks["event_detail"].total)]
  /\ threads' = [threads EXCEPT ![t].pc = "done"]
  /\ UNCHANGED <<appVars, emitted, pure, taup, detail>>

\* update_task(task_id, 1) and complete_task(task_id, success=True), each
\* taken as one step
UpdateOrComplete(t) ==
  /\ t \in DOMAIN threads
  /\ tasks["event_detail"].exists
  /\ threads[t].pc = "start"
  /\ \/ /\ threads[t].op = "update_task"
        /\ tasks' = UpdateTask(tasks, "event_detail", 1)
        /\ UNCHANGED emitted
     \/ /\ threads[t].op = "complete_task"
        /\ tasks' = CompleteTask(tasks, "event_detail", TRUE, "")
        /\ emitted' = CompleteSignal(emitted, tasks, "event_detail", TRUE)
  /\ threads' = [threads EXCEPT ![t].pc = "done"]
  /\ UNCHANGED <<appVars, pure, taup, detail>>

vars == <<cancel, runs, tasks, emitted, gui, computes, queue, futures, search,
         pure, taup, detail, threads>>

\* the most waveform requests a run with these arguments can issue
RequestBudget(c) == Len(BuildBulkRequest(c.events, c.stations, c)) * c.max_retries

Configs ==
  {c \in AllConfigs : /\ RequestBudget(c) <= MaxRequests
                      /\ c.clean_gaps => (c.chunk_size = 1 /\ c.max_retries = 1)}

NoTaup == [taup_model |-> None, calls |-> <<>>]

NoDetail == [pc |-> "idle"]

\* no call of the library functions, of the arrival computations, of
\* get_event_details or of the ProgressManager threads is in progress
LibIdle ==
  /\ pure = NoCall
  /\ taup = NoTaup
  /\ detail = NoDetail
  /\ threads = <<>>

\* a fresh ProgressManager, WaveformDownloader, MainWindow and StationService
Fresh ==
  /\ cancel = FALSE
  /\ tasks = [t \in TaskIds |-> NoTask]
  /\ emitted = [task_completed |-> [t \in TaskIds |-> 0], task_failed |-> [t \in TaskIds |-> 0]]
  /\ gui = GuiInit
  /\ computes = [c \in ComputeIds |-> "idle"]
  /\ queue = <<>>

\* download_waveforms called once on a fresh downloader, with arguments drawn
\* from Configs, while another thread may call cancel
Init ==
  /\ Fresh
  /\ StaIdle
  /\ LibIdle
  /\ \E cfg \in Configs, answers \in AnswerStyles :
       runs = [w \in Workers |-> IF w = 1 THEN StartedRun(cfg, answers) ELSE IdleRun]

Next ==
  \/ DlStep(1)
  \/ Cancel

Spec == Init /\ [][Next]_vars

\* the same call when every provider call returns: the worker thread keeps
\* taking steps until download_waveforms returns. This is weak fairness of
\* DlStep(1) written out, a step of the worker being possible exactly while
\* the call is in progress.
SpecFair == Spec /\ ([]<>(~InProgress(1)) \/ []<><<DlStep(1)>>_vars)

\* the application: the user clicks Compute Arrivals, Download and Stop while
\* worker threads run and their signals are delivered
InitGui ==
  /\ Fresh
  /\ StaIdle
  /\ LibIdle
  /\ runs = [w \in Workers |-> IdleRun]

NextGui ==
  \/ OnComputeArrivals
  \/ \E c \in ComputeIds : ComputeRun(c)
  \/ OnDownload
  \/ OnStopDownload
  \/ \E w \in Workers : DlStep(w)
  \/ \E w \in Workers : DlReturn(w)
  \/ Deliver

SpecGui == InitGui /\ [][NextGui]_vars

\* one call of search_stations / search_stations_by_event_distance on a fresh
\* StationService
InitSta ==
  /\ Fresh
  /\ LibIdle
  /\ runs = [w \in Workers |-> IdleRun]
  /\ futures = <<>>
  /\ \E call \in SearchCalls : search = CalledSearch(call)

NextSta ==
  \/ StaSubmit
  \/ \E k \in 1..MaxProviders : QueryStart(k)
  \/ \E k \in 1..MaxProviders : QueryAttempt(k)
  \/ \E k \in 1..MaxProviders : Collect(k)
  \/ StaReturn

SpecSta == InitSta /\ [][NextSta]_vars

\* the pool threads and the calling thread keep running
SpecStaFair == SpecSta /\ WF_vars(NextSta)

\* one call of a function without side effects, with arguments drawn from its
\* call set, or a session of arrival computations on a fresh downloader
PureCalls ==
  LET \* the entries of a channel string: patterns, explicit codes and the
      \* FDSN wildcard for any channel
      entries == {<<"B", "H", "?">>, <<"H", "H", "?">>, BHZ, HHZ, <<"*">>}
      channel_lists == UNION {[1..n -> entries] : n \in 1..MaxChannels}
      \* station['channel_types']: absent or empty, or some of BH, HH, EH
      channel_types == SUBSET {<<"B", "H">>, <<"H", "H">>, <<"E", "H">>}
      \* time_before and time_after are the values of the spin boxes, whose
      \* ranges start at 0
      windows == [theoretical_arrivals : ArrivalTables, time_before : {0, 1}, time_after : {0, 2},
                  channels : ChannelSpecs, location : {"*"}]
      \* a segment of one channel at 1 Hz; streams without a gap, with a
      \* gap of 1 s and with a gap of 6 s
      seg(from, to) == TraceOf([net |-> "IU", sta |-> "ANMO", cha |-> BHZ, event_id |-> "e1"], from, to)
      gap_streams == {<<seg(0, 9)>>, <<seg(0, 1), seg(3, 4)>>, <<seg(8, 9), seg(0, 1)>>}
      \* the same streams and a stream of two channels, as tagged by a
      \* download (with an event id, also one that holds characters not
      \* allowed in a file name) or untagged
      other == [seg(0, 9) EXCEPT !.cha = HHZ]
      tags == {<<>>, <<"e", "1">>, <<"e", ":", "/", "1">>}
      tagged(st, tag) == [k \in 1..Len(st) |-> [st[k] EXCEPT !.event_id = tag]]
      save_streams == {tagged(st, tag) : st \in gap_streams \cup {<<seg(0, 9), other>>, <<>>}, tag \in tags}
  IN UNION {
       {Called("resolve_station_channels", [channels |-> c, station |-> [channel_types |-> t]]) :
          c \in channel_lists, t \in channel_types},
       {Called("build_bulk_request", [events |-> EventList(n), stations |-> s, cfg |-> c]) :
          n \in 1..MaxEvents, s \in StationLists, c \in windows},
       \* fill_value a number or None, max_gap in seconds
       {Called("merge_and_cleanup", [stream |-> st, fill_value |-> f, max_gap |-> g]) :
          st \in gap_streams, f \in {<<0>>, <<>>}, g \in {2, 10}},
       {Called("save_waveforms", [stream |-> st, save_format |-> f]) :
          st \in save_streams, f \in {"SAC", "mseed", "XYZ"}},
       \* events at the benchmark distances and depths of the filter, with
       \* magnitudes (in tenths) on and off the cutoffs 4.2, 5.2 and 5.7
       {Called("apply_filter", [events |-> ev, enabled |-> en]) :
          ev \in UNION {[1..n -> [distance_deg : {30, 105}, depth : {0, 700},
                                  magnitude : {42, 52, 57}]] : n \in 0..MaxEvents},
          en \in BOOLEAN},
       \* a session of arrival computations
       {Called("compute_arrivals", <<>>)}
     }

InitLib ==
  /\ Fresh
  /\ StaIdle
  /\ runs = [w \in Workers |-> IdleRun]
  /\ taup = NoTaup
  /\ detail = NoDetail
  /\ threads = <<>>
  /\ pure \in PureCalls

NextLib ==
  \/ CallResolveStationChannels
  \/ CallBuildBulkRequest
  \/ CallMergeAndCleanup
  \/ CallSaveWaveforms
  \/ CallApplyFilter
  \/ ComputeArrivals

SpecLib == InitLib /\ [][NextLib]_vars

\* one call of get_event_details on a fresh EventService: catalog_source a
\* known or an unknown name, mt_catalogs absent or a list (with an unknown
\* name, with a name twice), event_time valid or not. Each catalog raises,
\* has no event in the window, or has events: complete ones, ones without
\* magnitude or depth, with or without a moment tensor, dt seconds away from
\* event_time.
InitDetail ==
  /\ Fresh
  /\ StaIdle
  /\ runs = [w \in Workers |-> IdleRun]
  /\ pure = NoCall
  /\ taup = NoTaup
  /\ threads = <<>>
  /\ LET ev(dt, complete, mt) == [dt |-> dt, complete |-> complete, mt |-> mt, catalog |-> ""]
         lists == {<<>>, <<ev(0, TRUE, FALSE)>>, <<ev(0, TRUE, TRUE)>>, <<ev(0, FALSE, TRUE)>>,
                   <<ev(5, TRUE, TRUE), ev(1, TRUE, FALSE)>>}
         answers == {[raises |-> TRUE, events |-> <<>>]} \cup {[raises |-> FALSE, events |-> l] : l \in lists}
     IN \E catalog_source \in CATALOG_SOURCES \cup {"EMSC"},
           mt_catalogs \in {<<>>, <<<<"USGS", "IRIS">>>>, <<<<"GCMT", "ISC", "ISC">>>>},
           time_valid \in BOOLEAN,
           a \in [CATALOG_SOURCES -> answers] :
          detail = [pc |-> "called",
                    call |-> [catalog_source |-> catalog_source, mt_catalogs |-> mt_catalogs,
                              time_valid |-> time_valid],
                    answers |-> a, catalogs_to_try |-> <<>>, idx |-> 1, event_found |-> <<>>,
                    mt_sources |-> <<>>, queried |-> <<>>, result |-> <<>>]

NextDetail ==
  \/ DetailBegin
  \/ DetailQuery
  \/ DetailFinish

SpecDetail == InitDetail /\ [][NextDetail]_vars

\* a task created with total 2 or 5, and up to MaxThreads threads that each
\* call one method of the ProgressManager on it
InitProgress ==
  /\ Fresh
  /\ StaIdle
  /\ runs = [w \in Workers |-> IdleRun]
  /\ pure = NoCall
  /\ taup = NoTaup
  /\ detail = NoDetail
  /\ \E n \in 1..MaxThreads :
       threads \in [1..n -> [op : {"increment_task", "update_task", "complete_task"},
                             pc : {"start"}, current : {0}]]

CreateForThreads ==
  /\ ~tasks["event_detail"].exists
  /\ \E total \in {2, 5} : tasks' = CreateTask(tasks, "event_detail", total)
  /\ UNCHANGED <<appVars, emitted, libVars>>

NextProgress ==
  \/ CreateForThreads
  \/ \E t \in 1..MaxThreads : IncrementRead(t)
  \/ \E t \in 1..MaxThreads : IncrementWrite(t)
  \/ \E t \in 1..MaxThreads : UpdateOrComplete(t)

SpecProgress == InitProgress /\ [][NextProgress]_vars

\* ------------------------------------------- what a run did, from its log
Done(w) == runs[w].pc \in {"done", "returned"}

BulkRun(w) == runs[w].pc # "idle" /\ runs[w].cfg.bulk_download

\* the traces a logged request put into the stream
ReqTraces(r, q) ==
  IF ~q.ok THEN <<>>
  ELSE IF q.mode = "bulk"
  THEN TagBulk(Response(q.tuples, r.answers), StartIdx(q.chunk, r.cfg.chunk_size),
               BulkOfGroup(r.cfg, q.grp))
  ELSE TagAll(Response(q.tuples, r.answers), q.tuples[1].event_id)

OkTraces(r) == Concat([k \in 1..Len(r.reqs) |-> ReqTraces(r, r.reqs[k])])

\* the chunks of a bulk run: <<group, chunk index>>
AllChunks(r) ==
  UNION {{<<g, i>> : i \in 0..(NChunks(Len(BulkOfGroup(r.cfg, g)), r.cfg.chunk_size) - 1)} :
           g \in 1..Len(ProviderKeys(r.cfg.stations))}

\* the chunks the run is through with
FinishedChunks(r) == {gi \in AllChunks(r) : gi[1] < r.grp \/ (gi[1] = r.grp /\ gi[2] < r.i)}

\* the positions in the log of the requests made for a chunk
Attempts(r, gi) ==
  {k \in 1..Len(r.reqs) : r.reqs[k].mode = "bulk" /\ r.reqs[k].grp = gi[1] /\ r.reqs[k].chunk = gi[2]}

FailedChunk(r, gi) == Attempts(r, gi) # {} /\ \A k \in Attempts(r, gi) : ~r.reqs[k].ok

C2_CancelBeforeStart ==
  \A w \in Workers :
    (Done(w) /\ runs[w].start_flag) =>
      /\ runs[w].result = ReturnStream(<<>>)
      /\ runs[w].reqs = <<>>
      /\ runs[w].client_cache = {}
      /\ ~runs[w].raised

C2_Witness ==
  \E w \in Workers :
    /\ Done(w) /\ runs[w].start_flag /\ ~runs[w].cfg.bulk_download
    /\ Len(runs[w].cfg.events) > 0 /\ runs[w].cfg.max_retries > 0

\* C3: a run stopped by the cancellation flag completes the progress task
\* 'waveform_download' with success: the task is not failed and no task_failed
\* signal was emitted.
C3_CancelReportedAsSuccess ==
  \A w \in Workers :
    (Done(w) /\ runs[w].cancelled) =>
      /\ tasks["waveform_download"].status = "completed"
      /\ emitted.task_failed["waveform_download"] = 0

\* C4: whenever the application starts a download run the flag is false
\* afterwards, and a run that stops because of the flag has had a cancel
\* request since its own start: a request made during or after an earlier run
\* never stops a later one.
C4_FlagResetBeforeRun ==
  [][\A w \in Workers :
       /\ (runs[w].pc = "idle" /\ runs'[w].pc # "idle") => ~cancel'
       /\ runs'[w].cancelled => runs'[w].cancel_req]_vars

\* a run was cancelled, and the next run went through its requests to the end
\* without being stopped
C4_Witness ==
  \E w \in Workers :
    /\ w + 1 \in Workers
    /\ Done(w) /\ runs[w].cancelled
    /\ Done(w + 1) /\ ~runs[w + 1].cancelled /\ ~runs[w + 1].cancel_req
    /\ runs[w + 1].reqs # <<>>

\* C5: in bulk mode every chunk the run is through with was requested at least
\* once and at most max_retries times, only its last request may have succeeded,
\* a pause follows a request only if it failed and another request of the same
\* chunk comes next, and the stream holds the traces of each success once.
C5_AttemptsPerChunk ==
  \A w \in Workers :
    BulkRun(w) =>
      LET r == runs[w]
      IN /\ \A gi \in FinishedChunks(r) :
              LET att == Attempts(r, gi)
              IN /\ Cardinality(att) >= 1
                 /\ Cardinality(att) <= r.cfg.max_retries
                 /\ \A k \in att : r.reqs[k].ok => (\A j \in att : j <= k)
                 /\ \A k \in att : r.reqs[k].slept => (~r.reqs[k].ok /\ k + 1 \in att)
         /\ ~r.cleaned => r.all_streams = OkTraces(r)

\* C6: in a bulk run that was not cancelled, when a chunk has failed on every
\* attempt the failure is logged, every chunk of every provider group has been
\* attempted, and the returned collection holds the traces of all chunks that
\* succeeded.
C6_FailedChunkSkipped ==
  \A w \in Workers :
    (BulkRun(w) /\ Done(w) /\ ~runs[w].cancelled) =>
      LET r == runs[w]
      IN (\E gi \in AllChunks(r) : FailedChunk(r, gi)) =>
           /\ \A gi \in AllChunks(r) :
                FailedChunk(r, gi) => \E k \in Attempts(r, gi) : r.reqs[k].logged = "error"
           /\ \A gi \in AllChunks(r) : Attempts(r, gi) # {}
           /\ r.result.kind = "stream"
           /\ ~r.cleaned => r.result.traces = OkTraces(r)

\* C7: a run returns None only if no waveform request was issued before, and a
\* run that has accumulated traces returns a collection containing them.
C7_HardFailureOnlyPreflight ==
  \A w \in Workers :
    Done(w) =>
      LET r == runs[w]
      IN /\ r.result.kind = "none" => r.reqs = <<>>
         /\ OkTraces(r) # <<>> => r.result.kind = "stream"
         /\ (OkTraces(r) # <<>> /\ ~r.cleaned) => r.result.traces = OkTraces(r)

\* ------------------------------------------ what a station search did
Returned == search.pc = "returned"

LastOf(s) == s[Len(s)]

Succeeded(f) == f.state = "done" /\ f.log # <<>> /\ LastOf(f.log) = "ok"

Keys(stations) == {StationKey(stations[k]) : k \in 1..Len(stations)}

\* the station dictionaries of the returned list
ResultStations ==
  IF search.call.by_distance
  THEN [k \in 1..Len(search.result) |-> search.result[k].station]
  ELSE search.result

\* one provider's query: at most 3 attempts, nothing after a success, a wait
\* after every failed attempt but the third, the k-th wait being
\* first_wait * 2^(k-1) seconds; no stations unless the last attempt succeeded
QueryContract(f, first_wait) ==
  /\ Len(f.log) <= 3
  /\ \A j \in 1..(Len(f.log) - 1) : f.log[j] = "fail"
  /\ Len(f.waits) <= 2
  /\ \A j \in 1..Len(f.waits) : f.waits[j] = first_wait * Pow(2, j - 1)
  /\ f.state = "done" =>
       /\ Len(f.waits) = (IF f.log = <<>> THEN 0 ELSE Len(f.log) - 1)
       /\ (f.log # <<>> /\ LastOf(f.log) = "fail") => Len(f.log) = 3
       /\ ~Succeeded(f) => f.value = <<>>
       /\ f.provider \notin DOMAIN PROVIDER_ENDPOINTS => f.log = <<>>

\* a returned search holds the stations of exactly the providers whose query
\* succeeded, whatever happened to the other providers
SearchIsolation ==
  Returned =>
    /\ search.failed = {k \in 1..Len(futures) : futures[k].state = "raised"}
    /\ ~search.call.by_distance =>
         Keys(search.result) =
           UNION {Keys(StationsList(futures[k].provider)) :
                    k \in {j \in 1..Len(futures) : Succeeded(futures[j])}}

C9_HungProviderTimesOut ==
  (\E k \in 1..Len(futures) : futures[k].state = "hung") ~> Returned

\* the first dictionary with this key in the concatenated provider results
FirstSeen(key) ==
  LET at == {k \in 1..Len(search.all_stations) :
               StationKey(search.all_stations[k]) = key}
  IN search.all_stations[CHOOSE k \in at : \A j \in at : k <= j]

\* the providers that returned this key
ProvidersOf(key) ==
  {search.all_stations[k].provider :
     k \in {j \in 1..Len(search.all_stations) :
              StationKey(search.all_stations[j]) = key}}

\* C10: the returned list holds each network.station key once; the record
\* kept is the first seen in the concatenated provider results, no field
\* overwritten; every other provider that returned the key is listed exactly
\* once in its 'providers', together with the record's own provider.
C10_DedupKeepsFirstSeen ==
  Returned =>
    /\ \A a, b \in 1..Len(ResultStations) :
         a # b => StationKey(ResultStations[a]) # StationKey(ResultStations[b])
    /\ ~search.call.by_distance => Keys(search.result) = Keys(search.all_stations)
    /\ \A a \in 1..Len(ResultStations) :
         LET kept == ResultStations[a]
             key == StationKey(kept)
             others == ProvidersOf(key) \ {kept.provider}
         IN /\ [kept EXCEPT !.providers = <<>>] = FirstSeen(key)
            /\ others # {} =>
                 /\ Range(kept.providers) = others \cup {kept.provider}
                 /\ Len(kept.providers) = Cardinality(Range(kept.providers))

\* C10 witness: a returned record whose key came twice from another provider
\* and once from its own
C10_Witness ==
  /\ Returned
  /\ \E a \in 1..Len(ResultStations) :
       /\ ResultStations[a].provider = "IRIS"
       /\ ResultStations[a].providers = <<"IRIS", "GEOFON">>
       /\ Cardinality({k \in 1..Len(search.all_stations) :
            StationKey(search.all_stations[k]) = StationKey(ResultStations[a])}) = 3

\* ------------------------------------------------ what a library call did
ReturnedFrom(op) == pure.op = op /\ pure.pc = "returned"

\* the expansion of one entry: a 3-character entry ending in '?' stands for
\* its Z, N and E components, any other entry for itself
EntryChannels(ch) ==
  IF Len(ch) = 3 /\ ch[3] = "?"
  THEN {SubSeq(ch, 1, 2) \o <<c>> : c \in {"Z", "N", "E"}}
  ELSE {ch}

\* C11: the resolved channels of a station are the expanded channels whose
\* 2-letter prefix is one of the station's channel_types; when there is no
\* such channel (or the station has no channel_types) they are all the
\* expanded channels; the resolved list is never empty.
C11_ChannelResolution ==
  ReturnedFrom("resolve_station_channels") =>
    LET expanded == UNION {EntryChannels(pure.args.channels[k]) :
                             k \in 1..Len(pure.args.channels)}
        types == pure.args.station.channel_types
        matching == {c \in expanded : Len(c) >= 2 /\ SubSeq(c, 1, 2) \in types}
    IN /\ Range(pure.out) = (IF matching # {} THEN matching ELSE expanded)
       /\ pure.out # <<>>

\* C12: every tuple of a bulk request ends strictly after it starts, whatever
\* time_before and time_after the caller passes (0 included).
C12_BulkWindowNotEmpty ==
  ReturnedFrom("build_bulk_request") =>
    \A k \in 1..Len(pure.out) : pure.out[k].end > pure.out[k].start

\* C13: cleaning with a numeric fill_value: a merged trace whose gaps add up
\* to more than max_gap is absent from the cleaned stream; one whose gaps add
\* up to less than max_gap is present with its gaps filled.
C13_GapCleanup ==
  (ReturnedFrom("merge_and_cleanup") /\ pure.args.fill_value # <<>>) =>
    LET st == pure.args.stream
        have == UnionAll([k \in 1..Len(st) |-> st[k].samples])
        span == SetMin(have)..SetMax(have)
        gap_duration == Cardinality(span \ have)
    IN /\ gap_duration > pure.args.max_gap => pure.out = <<>>
       /\ gap_duration < pure.args.max_gap =>
            /\ Len(pure.out) = 1
            /\ pure.out[1].samples = span
            /\ pure.out[1].gap_samples = 0

\* C14: after a successful save of a stream of n traces there are n files,
\* one per trace, named net.sta.loc.cha.ext in the directory of the trace's
\* event id (of its start time when it has none), each holding its trace.
C14_OneFilePerTrace ==
  (ReturnedFrom("save_waveforms") /\ pure.out.ok) =>
    LET st == pure.args.stream
    IN /\ Cardinality(DOMAIN pure.out.files) = Len(st)
       /\ \A k \in 1..Len(st) :
            \E path \in DOMAIN pure.out.files :
              /\ pure.out.files[path] = st[k]
              /\ SubSeq(path, 2, 5) = TraceId(st[k])

\* C15: every arrival computation uses the velocity model named in the call,
\* and a model of a given name is created at most once.
C15_ModelCachedPerName ==
  /\ \A k \in 1..Len(taup.calls) : taup.calls[k].used = taup.calls[k].model
  /\ \A name \in {"iasp91", "ak135"} :
       Cardinality({k \in 1..Len(taup.calls) :
                      taup.calls[k].created /\ taup.calls[k].used = name}) <= 1

Answering ==
  {c \in Range(detail.catalogs_to_try) :
     ~detail.answers[c].raises /\ detail.answers[c].events # <<>>}

\* C17: get_event_details returns None only if no catalog of the search list
\* returned an event: when one did the result is a record, with
\* has_moment_tensor False when no catalog supplied a tensor; and every
\* catalog of the list is queried whatever the earlier ones did.
C17_NoneOnlyIfNoEvent ==
  (detail.pc = "returned" /\ detail.catalogs_to_try # <<>>) =>
    /\ detail.queried = detail.catalogs_to_try
    /\ Answering # {} =>
         /\ detail.result # <<>>
         /\ detail.mt_sources = <<>> => ~detail.result[1].has_moment_tensor

\* the catalogs of the search list whose event closest to event_time has a
\* moment tensor, in the order of the list
Supplying ==
  LET closest(c) == CHOOSE e \in Range(detail.answers[c].events) :
                      \A o \in Range(detail.answers[c].events) : e.dt <= o.dt
  IN SelectSeq(Unique(detail.catalogs_to_try, {}), LAMBDA c : c \in Answering /\ closest(c).mt)

\* C18: the catalogs are queried one at a time in priority order (by default
\* the primary catalog, then ISC, then USGS, each once); the result has
\* has_moment_tensor true exactly when some catalog supplied a tensor, its
\* moment_tensor is the tensor of the first supplying catalog, and when more
\* than one supplied, moment_tensors holds the tensor of each under its name.
C18_TensorsOfEveryCatalog ==
  (detail.pc = "returned" /\ detail.catalogs_to_try # <<>>) =>
    /\ detail.queried = detail.catalogs_to_try
    /\ detail.call.mt_catalogs = <<>> =>
         /\ detail.queried \in {<<"IRIS", "ISC", "USGS">>, <<"ISC", "USGS">>, <<"USGS", "ISC">>}
         /\ detail.queried[1] = detail.call.catalog_source
    /\ Answering # {} =>
         /\ detail.result # <<>>
         /\ detail.result[1].has_moment_tensor <=> Supplying # <<>>
         /\ Supplying # <<>> =>
              detail.result[1].moment_tensor = <<[of |-> Supplying[1], source_catalog |-> Supplying[1]]>>
         /\ Len(Supplying) > 1 =>
              /\ DOMAIN detail.result[1].moment_tensors = Range(Supplying)
              /\ \A c \in Range(Supplying) :
                   detail.result[1].moment_tensors[c] = [of |-> c, source_catalog |-> c]

\* C19: calls made concurrently on one task lose no update: when n threads
\* have each called increment_task(1), and no other method was called,
\* current has gone up by min(n, total); current never exceeds total; and
\* after a complete_task with success next to increment_task calls, once
\* all calls have returned, the task has current = total and status
\* "completed" (in whatever order the calls take effect).
C19_NoLostUpdate ==
  LET task == tasks["event_detail"]
      done == threads # <<>> /\ \A t \in DOMAIN threads : threads[t].pc = "done"
      ops == {threads[t].op : t \in DOMAIN threads}
  IN /\ task.current <= task.total
     /\ done /\ ops = {"increment_task"} => task.current = Min(Len(threads), task.total)
     /\ done /\ "complete_task" \in ops /\ "update_task" \notin ops =>
          task.current = task.total /\ task.status = "completed"

\* C20: while a download run is in progress the cancellation flag only goes
\* from false to true: no step taken during the run sets it back to false.
C20_FlagOnlyRises ==
  [][(cancel /\ \E w \in Workers : InProgress(w) /\ runs[w].pc # "start") => cancel']_vars

\* the providers whose query succeeded and whose answer holds this key
SucceededWith(key) ==
  {futures[k].provider :
     k \in {j \in 1..Len(futures) :
              Succeeded(futures[j]) /\ key \in Keys(StationsList(futures[j].provider))}}

\* the provider of a kept record together with its alternate providers
Contributing(kept) == {kept.provider} \cup Range(kept.providers)

\* C21: whatever the order in which the provider queries complete, the
\* returned list is fixed by the call and by which queries succeeded: it
\* holds each network.station key of the succeeded providers exactly once,
\* and for each key the contributing providers (the kept record's provider
\* and its alternates) are exactly the succeeded providers that hold the key.
C21_ResultIndependentOfCompletionOrder ==
  Returned =>
    /\ \A a, b \in 1..Len(ResultStations) :
         a # b => StationKey(ResultStations[a]) # StationKey(ResultStations[b])
    /\ ~search.call.by_distance =>
         Keys(search.result) =
           UNION {Keys(StationsList(futures[k].provider)) :
                    k \in {j \in 1..Len(futures) : Succeeded(futures[j])}}
    /\ \A a \in 1..Len(ResultStations) :
         Contributing(ResultStations[a]) = SucceededWith(StationKey(ResultStations[a]))

\* C21 witness: two providers that share IU.ANMO were collected in the
\* reverse of their submission order, so the kept record is the one of the
\* provider submitted second
C21_Witness ==
  /\ Returned
  /\ search.call.providers = <<"IRIS", "GEOFON">>
  /\ search.all_stations # <<>>
  /\ search.all_stations[1].provider = "GEOFON"
  /\ \E a \in 1..Len(ResultStations) :
       /\ StationKey(ResultStations[a]) = "IU.ANMO"
       /\ ResultStations[a].provider = "GEOFON"
       /\ Contributing(ResultStations[a]) = {"IRIS", "GEOFON"}

\* the P time the arrival table holds for '<event_id>-<network>.<station>',
\* 0 when the key or its 'P' entry is absent
TableP(table, event, station) ==
  LET key == event.event_id \o "-" \o station.network \o "." \o station.station
  IN IF key \notin DOMAIN table THEN 0
     ELSE IF "P" \notin DOMAIN table[key] THEN 0 ELSE table[key].P

\* the number of tuples of the stations before the s-th of a group, per event
ChannelsBefore(cfg, sts, s) ==
  Len(Concat([k \in 1..(s - 1) |-> ResolveStationChannels(cfg.channels, sts[k])]))

\* the place of (event e, station s, channel c) in event-major order
PlaceOf(cfg, sts, e, s, c) ==
  (e - 1) * ChannelsBefore(cfg, sts, Len(sts) + 1) + ChannelsBefore(cfg, sts, s) + c

\* the tuples number i*size+1 .. min((i+1)*size, n) of a list
SliceOf(bulk, i, size) ==
  LET last == IF (i + 1) * size < Len(bulk) THEN (i + 1) * size ELSE Len(bulk)
  IN [k \in 1..(last - i * size) |-> bulk[i * size + k]]

\* the bulk list of a group is the event-major list of one tuple per event,
\* station of the group and resolved channel, windowed around the P time
BulkListExact(cfg, g) ==
  LET sts == GroupStations(cfg.stations, ProviderKeys(cfg.stations)[g])
      bulk == BulkOfGroup(cfg, g)
  IN /\ Len(bulk) = Len(cfg.events) * ChannelsBefore(cfg, sts, Len(sts) + 1)
     /\ \A e \in 1..Len(cfg.events) : \A s \in 1..Len(sts) :
          LET chans == ResolveStationChannels(cfg.channels, sts[s])
              P == TableP(cfg.theoretical_arrivals, cfg.events[e], sts[s])
          IN \A c \in 1..Len(chans) :
               bulk[PlaceOf(cfg, sts, e, s, c)] =
                 [net |-> sts[s].network, sta |-> sts[s].station, loc |-> cfg.location,
                  cha |-> chans[c],
                  start |-> cfg.events[e].time + P - cfg.time_before,
                  end |-> cfg.events[e].time + P + cfg.time_after,
                  event_id |-> cfg.events[e].event_id]

\* the chunks of group g in which tuple number n was requested
ChunksSending(r, g, n) ==
  {q.chunk : q \in {r.reqs[k] : k \in {j \in 1..Len(r.reqs) :
      /\ r.reqs[j].mode = "bulk" /\ r.reqs[j].grp = g
      /\ n - r.reqs[j].chunk * r.cfg.chunk_size \in 1..Len(r.reqs[j].tuples)}}}

PositionalTags(r, q) ==
  LET resp == Response(q.tuples, r.answers)
      list == BulkOfGroup(r.cfg, q.grp)
      s == q.chunk * r.cfg.chunk_size
  IN [j \in 1..Len(resp) |->
        IF s + j \in 1..Len(list)
        THEN [resp[j] EXCEPT !.event_id = list[s + j].event_id]
        ELSE resp[j]]

\* C23: the traces a bulk run has accumulated are the responses to its
\* successful chunk requests, each tagged by position in its group's request
\* list; when the providers answer every tuple with one trace in tuple order,
\* every trace carries the event id of the tuple that requested it.
C23_BulkTagsByPosition ==
  \A w \in Workers :
    (BulkRun(w) /\ ~runs[w].cleaned) =>
      LET r == runs[w]
      IN /\ r.all_streams =
              Concat([k \in 1..Len(r.reqs) |->
                        IF r.reqs[k].ok THEN PositionalTags(r, r.reqs[k]) ELSE <<>>])
         /\ r.answers = "full" =>
              \A j \in 1..Len(r.all_streams) :
                r.all_streams[j].req_events = {r.all_streams[j].event_id}

\* C23 witness: with one trace per tuple, a chunk that does not start the
\* list returned a trace of the second event, tagged with it
C23_Witness ==
  \E w \in Workers :
    /\ BulkRun(w) /\ Done(w) /\ ~runs[w].cleaned /\ runs[w].answers = "full"
    /\ \E k \in 1..Len(runs[w].reqs) : runs[w].reqs[k].ok /\ runs[w].reqs[k].chunk >= 1
    /\ \E j \in 1..Len(runs[w].all_streams) :
         /\ runs[w].all_streams[j].event_id = "e2"
         /\ runs[w].all_streams[j].req_events = {"e2"}

SingleRun(w) == runs[w].pc # "idle" /\ ~runs[w].cfg.bulk_download

\* the positions in the log of the requests of individual mode for event e,
\* station s and the c-th resolved channel
SingleAttempts(r, e, s, c) ==
  {k \in 1..Len(r.reqs) :
     /\ r.reqs[k].mode = "single" /\ r.reqs[k].grp = s /\ r.reqs[k].chunk = c
     /\ r.reqs[k].tuples[1].event_id = r.cfg.events[e].event_id}

\* C24: in individual mode every event x station x resolved channel is
\* attempted at most max_retries times, stopping at the first success; a run
\* that has issued a request and was not stopped by the flag has requested
\* every combination, also after one failed on all its attempts (whatever
\* failed after the first request); no request is made for an
\* event whose check found the flag set, and the run stopped there returns
\* the traces accumulated so far.
C24_IndividualRequests ==
  \A w \in Workers :
    SingleRun(w) =>
      LET r == runs[w]
      IN /\ \A e \in 1..Len(r.cfg.events) : \A s \in 1..Len(r.cfg.stations) :
              \A c \in 1..Len(PairTuples(r.cfg.events[e], r.cfg.stations[s], r.cfg)) :
                LET att == SingleAttempts(r, e, s, c)
                IN /\ Cardinality(att) <= r.cfg.max_retries
                   /\ \A k \in att : r.reqs[k].ok => (\A j \in att : j <= k)
                   /\ (Done(w) /\ ~r.cancelled /\ r.reqs # <<>>) => att # {}
         /\ \A k \in 1..Len(r.reqs) : ~r.reqs[k].chk
         /\ (Done(w) /\ r.cancelled) =>
              /\ r.result = ReturnStream(OkTraces(r))
              /\ r.cleaned = FALSE

\* C25: at most one download_waveforms run is in progress at any time on the
\* shared downloader: no download is started (and reset_cancel is not
\* called) while an earlier run has not returned.
C25_OneDownloadAtATime ==
  Cardinality({w \in Workers : InProgress(w)}) <= 1

\* the number of traces the successful requests before the k-th put into the
\* stream
TracesBefore(r, k) ==
  Len(Concat([j \in 1..(k - 1) |->
                IF r.reqs[j].ok THEN Response(r.reqs[j].tuples, r.answers) ELSE <<>>]))

\* C26: every trace a bulk chunk returned carries the event id of one of the
\* chunk's own tuples, however many traces the provider returned for the
\* chunk: none carries the id of a tuple of another chunk only, none is left
\* untagged.
C26_TagsStayInsideChunk ==
  \A w \in Workers :
    (BulkRun(w) /\ ~runs[w].cleaned) =>
      LET r == runs[w]
      IN \A k \in 1..Len(r.reqs) :
           r.reqs[k].ok =>
             \A j \in 1..Len(Response(r.reqs[k].tuples, r.answers)) :
               LET tr == r.all_streams[TracesBefore(r, k) + j]
               IN /\ tr.event_id # NoTag
                  /\ tr.event_id \in {r.reqs[k].tuples[n].event_id :
                                        n \in 1..Len(r.reqs[k].tuples)}

\* C27: the output of a run with gap cleanup holds no trace with samples of
\* two events: every trace has the samples requested for the one event it is
\* tagged with, and every event / network / station / location / channel
\* that had a trace before the cleanup (none is rejected when the gaps are
\* filled) has a trace tagged with that event afterwards.
C27_CleanupKeepsEventsApart ==
  \A w \in Workers :
    (Done(w) /\ runs[w].cleaned) =>
      LET r == runs[w]
          out == r.result.traces
          before == OkTraces(r)
      IN /\ \A j \in 1..Len(out) :
              /\ Cardinality(out[j].req_events) = 1
              /\ out[j].event_id \in out[j].req_events
         /\ \A k \in 1..Len(before) :
              \E j \in 1..Len(out) :
                /\ TraceId(out[j]) = TraceId(before[k])
                /\ out[j].req_events = before[k].req_events

\* C28: within a download run the progress value of task 'waveform_download'
\* never decreases and never exceeds the task total, and a task completed
\* with success stands at current = total.
C28_ProgressMonotonic ==
  [][LET old == tasks["waveform_download"]
         new == tasks'["waveform_download"]
     IN (old.exists /\ new.exists) =>
          /\ new.current >= old.current
          /\ new.current <= new.total
          /\ new.status = "completed" => new.current = new.total]_vars

\* the requests a run has issued: <<client, tuple>>, the tuple with the event
\* id it is associated with
Requested(r) ==
  UNION {{<<r.reqs[k].client, r.reqs[k].tuples[n]>> : n \in 1..Len(r.reqs[k].tuples)} :
           k \in 1..Len(r.reqs)}

\* the tuples of the bulk lists of all provider groups, each with the client
\* of its group
BulkRequests(cfg) ==
  LET keys == ProviderKeys(cfg.stations)
      OfGroup(g) == LET bulk == BulkOfGroup(cfg, g)
                        name == ClientName(keys[g], cfg.provider)
                    IN {<<name, bulk[n]>> : n \in 1..Len(bulk)}
  IN UNION {OfGroup(g) : g \in 1..Len(keys)}

\* a run that went through all its events, stations and groups, every
\* request attempted
Complete(w) ==
  Done(w) /\ ~runs[w].cancelled /\ ~runs[w].raised /\ runs[w].cfg.max_retries >= 1

RequestLimit(r) ==
  IF r.cfg.bulk_download
  THEN Cardinality(AllChunks(r)) * r.cfg.max_retries
  ELSE Len(BuildBulkRequest(r.cfg.events, r.cfg.stations, r.cfg)) * r.cfg.max_retries

\* C30: when every provider call returns, a download run issues no more
\* requests than its mode's limit, download_waveforms eventually returns, and
\* when it has returned the task 'waveform_download' has been completed
\* exactly once (one task_completed or task_failed signal).
C30_RunTerminates ==
  /\ [](runs[1].pc # "idle" => Len(runs[1].reqs) <= RequestLimit(runs[1]))
  /\ <>Done(1)
  /\ [](IF Done(1)
        THEN emitted.task_completed["waveform_download"] +
               emitted.task_failed["waveform_download"] = 1
        ELSE emitted.task_completed["waveform_download"] +
               emitted.task_failed["waveform_download"] = 0)

\* C30 witness: a bulk run of several chunks in which every attempt of every
\* chunk failed has issued exactly the limit of requests and has returned
\* with the task completed once
C30_Witness ==
  /\ BulkRun(1) /\ Done(1) /\ ~runs[1].cancelled /\ ~runs[1].raised
  /\ runs[1].cfg.max_retries = 2
  /\ Cardinality(AllChunks(runs[1])) >= 2
  /\ Len(runs[1].reqs) = RequestLimit(runs[1])
  /\ emitted.task_completed["waveform_download"] = 1
====
